---------------------------- MODULE Spec2Model ----------------------------
(***************************************************************************)
(* The Intelligent Data Room: ConversationMemory, DataLoader, PlannerAgent *)
(* and AgentOrchestrator (src/src/utils, src/src/agents) as state machines.*)
(*                                                                         *)
(* Spec     one AgentOrchestrator driven through load_data, process_query, *)
(*          clear_conversation and reset.                                  *)
(* SpecMem  one ConversationMemory(max_messages = K) on its own, driven    *)
(*          through add_message and get_context.                           *)
(* SpecContext one ConversationMemory on its own, driven through           *)
(*          add_message, set_data_schema, set_dataframe_info, clear and    *)
(*          get_full_context.                                              *)
(* SpecPlan one PlannerAgent on its own, driven through create_plan with   *)
(*          every outcome of the generation call.                          *)
(* SpecLoader one DataLoader on its own, driven through validate_file,     *)
(*          load_file, get_schema and get_dataframe_info.                  *)
(*                                                                         *)
(* Python values whose type varies at run time (Optional[...] attributes,  *)
(* decoded JSON) are tagged records, so that None, strings, numbers and    *)
(* lists can be told apart. Text of fixed type str is a TLA+ string.       *)
(***************************************************************************)
EXTENDS Integers, Sequences, FiniteSets, TLC

VARIABLES
    max_messages,            \* ConversationMemory.max_messages
    messages,                \* ConversationMemory.messages
    data_schema,             \* ConversationMemory.data_schema
    current_dataframe_info,  \* ConversationMemory.current_dataframe_info
    hist,                    \* history: every message handed to add_message, in order
    current_df,              \* AgentOrchestrator.current_df
    last_plan,               \* AgentOrchestrator.last_plan
    dl_current_df,           \* DataLoader.current_df
    dl_file_name,            \* DataLoader.file_name
    smart_df,                \* ExecutorAgent.smart_df
    op,                      \* the operation that ran last
    ret,                     \* what it returned, or the exception it raised
    calls                    \* the calls it made, in order, and the call that raised

memvars == <<max_messages, messages, data_schema, current_dataframe_info>>
orchvars == <<current_df, last_plan, dl_current_df, dl_file_name, smart_df, op, ret, calls>>
vars == <<memvars, hist, orchvars>>

(***************************************************************************)
(* Bounds                                                                  *)
(***************************************************************************)
MaxCap == 3      \* SpecMem: capacities 0..MaxCap are tried
MaxAdds == 5     \* SpecMem: at most this many add_message calls
MaxRows == 2     \* a parsed table that is not empty has MaxRows rows

\* How far past its capacity the log may grow through add_message calls that
\* raise at the truncation, after the append
MaxOverflow == 2

(***************************************************************************)
(* Python values                                                           *)
(***************************************************************************)
None == [t |-> "none"]
Str(s) == [t |-> "str", v |-> s]
Num(n) == [t |-> "num", v |-> n]
Bool(b) == [t |-> "bool", v |-> b]
Arr(items) == [t |-> "arr", v |-> items]
Obj(pairs) == [t |-> "obj", v |-> pairs]   \* pairs: sequence of <<key, value>>
Unset == [t |-> "unset"]                   \* an attribute never assigned

\* The outcome of a call: a value returned, or an exception raised
Returns(v) == [raised |-> FALSE, value |-> v]
Raises(type, text) == [raised |-> TRUE, type |-> type, text |-> text]

\* type(x).__name__
TypeName(x) ==
    CASE x.t = "str" -> "str"
      [] x.t = "num" -> "int"
      [] x.t = "bool" -> "bool"
      [] x.t = "none" -> "NoneType"
      [] x.t = "arr" -> "list"
      [] x.t = "obj" -> "dict"

\* sep.join(parts) for a list of str
RECURSIVE Join(_, _)
Join(sep, parts) ==
    IF parts = <<>> THEN ""
    ELSE IF Len(parts) = 1 THEN parts[1]
    ELSE parts[1] \o sep \o Join(sep, Tail(parts))

\* repr(x), for text without quotes or escapes
RECURSIVE Repr(_)
Repr(x) ==
    CASE x.t = "str" -> "'" \o x.v \o "'"
      [] x.t = "num" -> ToString(x.v)
      [] x.t = "bool" -> IF x.v THEN "True" ELSE "False"
      [] x.t = "none" -> "None"
      [] x.t = "arr" -> "[" \o Join(", ", [i \in 1..Len(x.v) |-> Repr(x.v[i])]) \o "]"
      [] x.t = "obj" -> "{" \o Join(", ", [i \in 1..Len(x.v) |->
                                  "'" \o x.v[i][1] \o "': " \o Repr(x.v[i][2])])
                         \o "}"

\* str(x)
PyStr(x) == IF x.t = "str" THEN x.v ELSE Repr(x)

\* bool(x)
Truthy(x) ==
    CASE x.t = "str" -> x.v # ""
      [] x.t = "num" -> x.v # 0
      [] x.t = "bool" -> x.v
      [] x.t = "none" -> FALSE
      [] x.t = "arr" -> x.v # <<>>
      [] x.t = "obj" -> x.v # <<>>

Min(a, b) == IF a < b THEN a ELSE b
Max(a, b) == IF a > b THEN a ELSE b

\* s[start:] of a Python list
PySliceFrom(s, start) ==
    LET n == Len(s)
        lo == IF start < 0 THEN Max(n + start, 0) ELSE Min(start, n)
    IN SubSeq(s, lo + 1, n)

(***************************************************************************)
(* utils/memory.py                                                         *)
(***************************************************************************)
Roles == {"user", "assistant"}
Contents == {"m1", "two\nlines"}

\* A Message that stores the label of the role in place of the role
Message_stores_label(role, content, execution_plan, chart_data) ==
    [role |-> IF role = "user" THEN "User" ELSE "Assistant", content |-> content,
     execution_plan |-> execution_plan, chart_data |-> chart_data]

Message(role, content, execution_plan, chart_data) ==
    [role |-> role, content |-> content,
     execution_plan |-> execution_plan, chart_data |-> chart_data]

\* add_message that records nothing
add_message_dropped(msgs, cap, role, content, execution_plan, chart_data) == msgs

\* add_message appending the message twice before it truncates
add_message_appends_twice(msgs, cap, role, content, execution_plan, chart_data) ==
    LET appended == Append(Append(msgs, Message(role, content, execution_plan, chart_data)),
                           Message(role, content, execution_plan, chart_data))
    IN IF Len(appended) > cap
       THEN PySliceFrom(appended, -cap)
       ELSE appended

\* ConversationMemory.add_message: the new value of self.messages
add_message(msgs, cap, role, content, execution_plan, chart_data) ==
    LET appended == Append(msgs, Message(role, content, execution_plan, chart_data))
    IN IF Len(appended) > cap
       THEN PySliceFrom(appended, -cap)
       ELSE appended

\* Whether add_message reaches its truncation: the log with the new message
\* is longer than the capacity
Truncates(msgs, cap) == Len(msgs) + 1 > cap

\* ConversationMemory.add_message raising at the truncation
\* self.messages[-self.max_messages:]: the message is appended, nothing is
\* evicted
add_message_interrupted(msgs, cap, role, content, execution_plan, chart_data) ==
    Append(msgs, Message(role, content, execution_plan, chart_data))

\* get_context leaving out the newest message: the context as it was before
\* the current turn was recorded
get_context_before_last(msgs) ==
    IF Len(msgs) <= 1 THEN "No previous conversation."
    ELSE Join("\n", [i \in 1..(Len(msgs) - 1) |->
                       (IF msgs[i].role = "user" THEN "User" ELSE "Assistant")
                       \o ": " \o msgs[i].content])

\* get_context with the two labels exchanged
get_context_labels_exchanged(msgs) ==
    IF msgs = <<>> THEN "No previous conversation."
    ELSE Join("\n", [i \in 1..Len(msgs) |->
                       (IF msgs[i].role = "user" THEN "Assistant" ELSE "User")
                       \o ": " \o msgs[i].content])

\* ConversationMemory.get_context
get_context(msgs) ==
    IF msgs = <<>> THEN "No previous conversation."
    ELSE Join("\n", [i \in 1..Len(msgs) |->
                       (IF msgs[i].role = "user" THEN "User" ELSE "Assistant")
                       \o ": " \o msgs[i].content])

\* ConversationMemory.set_data_schema, ConversationMemory.set_dataframe_info:
\* the value stored
set_data_schema(schema) == Str(schema)
set_dataframe_info(info) == Str(info)

\* get_full_context with the dataframe-info block ahead of the schema block
get_full_context_info_first(schema, info, msgs) ==
    LET conversation == get_context(msgs)
        parts ==
            (IF Truthy(info) THEN <<"DATAFRAME INFO:\n" \o info.v>> ELSE <<>>)
            \o (IF Truthy(schema) THEN <<"DATA SCHEMA:\n" \o schema.v>> ELSE <<>>)
            \o (IF conversation # "No previous conversation."
                THEN <<"CONVERSATION HISTORY:\n" \o conversation>> ELSE <<>>)
    IN IF parts # <<>> THEN Join("\n\n", parts) ELSE "No context available."

\* ConversationMemory.get_full_context
get_full_context(schema, info, msgs) ==
    LET conversation == get_context(msgs)
        parts ==
            (IF Truthy(schema) THEN <<"DATA SCHEMA:\n" \o schema.v>> ELSE <<>>)
            \o (IF Truthy(info) THEN <<"DATAFRAME INFO:\n" \o info.v>> ELSE <<>>)
            \o (IF conversation # "No previous conversation."
                THEN <<"CONVERSATION HISTORY:\n" \o conversation>> ELSE <<>>)
    IN IF parts # <<>> THEN Join("\n\n", parts) ELSE "No context available."

(***************************************************************************)
(* utils/data_loader.py                                                    *)
(*                                                                         *)
(* A DataFrame is what the tabular library parsed: column labels (str for  *)
(* a CSV header, str or int for Excel header cells), the dtype it inferred *)
(* for each column, and the rows of cells (None is a missing value).       *)
(* An uploaded file is its name, its size in bytes and what the parser     *)
(* does with its content: a DataFrame, or one of the parser's exceptions.  *)
(***************************************************************************)
MAX_FILE_SIZE_MB == 10
MAX_FILE_SIZE_BYTES == MAX_FILE_SIZE_MB * 1024 * 1024
SUPPORTED_EXTENSIONS == {".csv", ".xlsx", ".xls"}

DataFrame(columns, dtypes, rows) ==
    [t |-> "DataFrame", columns |-> columns, dtypes |-> dtypes, rows |-> rows]

\* len(df), len(df.columns), df.empty
NumRows(df) == Len(df.rows)
NumColumns(df) == Len(df.columns)
IsEmpty_never(df) == FALSE    \* df.empty left unchecked
IsEmpty(df) == NumRows(df) = 0 \/ NumColumns(df) = 0

UpperCase == "ABCDEFGHIJKLMNOPQRSTUVWXYZ"
LowerCase == "abcdefghijklmnopqrstuvwxyz"

\* c.lower() for one character
LowerChar(c) ==
    IF \E i \in 1..Len(UpperCase) : SubSeq(UpperCase, i, i) = c
    THEN LET i == CHOOSE i \in 1..Len(UpperCase) : SubSeq(UpperCase, i, i) = c
         IN SubSeq(LowerCase, i, i)
    ELSE c

\* s.lower()
RECURSIVE Lower(_)
Lower(s) == IF s = "" THEN "" ELSE LowerChar(Head(s)) \o Lower(Tail(s))

\* s.rsplit('.', 1)[-1] for s that holds a '.': the text after the last '.'
AfterLastDot(s) ==
    LET dots == {i \in 1..Len(s) : SubSeq(s, i, i) = "."}
        last == CHOOSE i \in dots : \A j \in dots : j <= i
    IN SubSeq(s, last + 1, Len(s))

\* DataLoader._get_extension
get_extension(file_name) ==
    IF \E i \in 1..Len(file_name) : SubSeq(file_name, i, i) = "."
    THEN "." \o Lower(AfterLastDot(file_name))
    ELSE ""

\* validate_file turning away a file of exactly the limit
validate_file_exclusive_limit(file_name, file_size) ==
    IF file_size >= MAX_FILE_SIZE_BYTES
    THEN <<FALSE, "File size exceeds " \o ToString(MAX_FILE_SIZE_MB)
                  \o "MB limit. Please upload a smaller file.">>
    ELSE IF get_extension(file_name) \notin SUPPORTED_EXTENSIONS
    THEN <<FALSE, "Unsupported file type. Please upload a CSV or XLSX file.">>
    ELSE <<TRUE, "">>

\* DataLoader.validate_file: (is_valid, error_message)
validate_file(file_name, file_size) ==
    IF file_size > MAX_FILE_SIZE_BYTES
    THEN <<FALSE, "File size exceeds " \o ToString(MAX_FILE_SIZE_MB)
                  \o "MB limit. Please upload a smaller file.">>
    ELSE IF get_extension(file_name) \notin SUPPORTED_EXTENSIONS
    THEN <<FALSE, "Unsupported file type. Please upload a CSV or XLSX file.">>
    ELSE <<TRUE, "">>

\* DataLoader.load_file: the tuple it returns and the DataLoader's fields after it.
\* pd.read_csv / pd.read_excel return file.parsed or raise it.
load_file(self_df, self_name, file) ==
    LET extension == get_extension(file.name)
        failed(msg) == [result |-> <<FALSE, msg, None>>,
                        current_df |-> self_df, file_name |-> self_name]
    IN IF extension \notin {".csv", ".xlsx", ".xls"}
       THEN failed("Unsupported file format.")
       ELSE IF file.parsed.t = "EmptyDataError"
       THEN failed("The file is empty or has no valid data.")
       ELSE IF file.parsed.t = "ParserError"
       THEN failed("Error parsing file: " \o file.parsed.text)
       ELSE IF file.parsed.t = "Exception"
       THEN failed("Error loading file: " \o file.parsed.text)
       ELSE IF IsEmpty(file.parsed)
       THEN failed("The uploaded file is empty.")
       ELSE [result |-> <<TRUE,
                          "Successfully loaded " \o ToString(NumRows(file.parsed))
                          \o " rows and " \o ToString(NumColumns(file.parsed))
                          \o " columns.",
                          file.parsed>>,
             current_df |-> file.parsed, file_name |-> Str(file.name)]

\* df[col]: the cells of column j, top to bottom
Column(df, j) == [i \in 1..NumRows(df) |-> df.rows[i][j]]

\* .dropna(): the cells that are not missing, in order
RECURSIVE DropNa(_)
DropNa(cells) ==
    IF cells = <<>> THEN <<>>
    ELSE IF Head(cells) = None THEN DropNa(Tail(cells))
    ELSE <<Head(cells)>> \o DropNa(Tail(cells))

\* str(v)[:30]
Str30(v) == SubSeq(PyStr(v), 1, Min(30, Len(PyStr(v))))

\* The text get_schema builds for a table: a heading and a line per column
SchemaText(df) ==
    LET total == NumRows(df)
        line(j) ==
            LET present == DropNa(Column(df, j))
                sample_values == SubSeq(present, 1, Min(3, Len(present)))
                sample_str == Join(", ", [k \in 1..Len(sample_values) |->
                                            Str30(sample_values[k])])
            IN "  - " \o PyStr(df.columns[j]) \o " (" \o df.dtypes[j] \o "): "
               \o ToString(Len(present)) \o "/" \o ToString(total)
               \o " non-null | Sample: [" \o sample_str \o "]"
    IN Join("\n", <<"COLUMNS AND DATA TYPES:">>
                  \o [j \in 1..NumColumns(df) |-> line(j)])

\* get_schema that does not fall back on the table the DataLoader holds
get_schema_ignores_loaded(self_df, df_arg) ==
    IF df_arg = None THEN "No data loaded." ELSE SchemaText(df_arg)

\* DataLoader.get_schema
get_schema(self_df, df_arg) ==
    LET df == IF df_arg = None THEN self_df ELSE df_arg
    IN IF df = None THEN "No data loaded." ELSE SchemaText(df)

\* get_dataframe_info counting the header as a row
get_dataframe_info_counts_header(self_df, df_arg) ==
    LET df == IF df_arg = None THEN self_df ELSE df_arg
    IN IF df = None THEN Returns("No data loaded.")
       ELSE Returns(Join("\n", <<
                "Total Rows: " \o ToString(NumRows(df) + 1),
                "Total Columns: " \o ToString(NumColumns(df)),
                "Column Names: " \o Join(", ", [j \in 1..NumColumns(df) |->
                                                  PyStr(df.columns[j])])>>))

\* DataLoader.get_dataframe_info: ', '.join raises TypeError at the first
\* column label that is not a str
get_dataframe_info(self_df, df_arg) ==
    LET df == IF df_arg = None THEN self_df ELSE df_arg
    IN IF df = None THEN Returns("No data loaded.")
       ELSE LET bad == {j \in 1..NumColumns(df) : df.columns[j].t # "str"}
            IN IF bad # {}
               THEN LET j == CHOOSE j \in bad : \A k \in bad : j <= k
                    IN Raises("TypeError",
                              "sequence item " \o ToString(j - 1)
                              \o ": expected str instance, int found")
               ELSE Returns(Join("\n", <<
                        "Total Rows: " \o ToString(NumRows(df)),
                        "Total Columns: " \o ToString(NumColumns(df)),
                        "Column Names: " \o Join(", ", [j \in 1..NumColumns(df) |->
                                                          df.columns[j].v])>>))

(***************************************************************************)
(* The uploads tried                                                       *)
(***************************************************************************)
\* A header of text labels, and one whose second cell is the number 2020
\* (an Excel sheet only: a CSV header is always read as text)
Headers ==
    { [columns |-> <<Str("region"), Str("amount")>>, dtypes |-> <<"object", "int64">>],
      [columns |-> <<Str("item"), Num(2020)>>, dtypes |-> <<"object", "int64">>] }

\* Row i of a parsed sheet: a text cell (missing in every second row) and a number
Row(i) == <<IF i % 2 = 0 THEN None ELSE Str("r" \o ToString(i)), Num(10 * i)>>

\* The tables a parser returns: a header alone, or a header and MaxRows rows
DataFrames ==
    { DataFrame(h.columns, h.dtypes, [i \in 1..n |-> Row(i)]) :
        h \in Headers, n \in {0, MaxRows} }

ParserOutcomes ==
    DataFrames \cup
    { [t |-> "EmptyDataError"],
      [t |-> "ParserError", text |-> "Error tokenizing data."],
      [t |-> "Exception", text |-> "File is not a zip file"] }

File(name, size, parsed) == [name |-> name, size |-> size, parsed |-> parsed]

\* A text header is the only kind a CSV can have
TextFrames ==
    {df \in DataFrames : \A j \in 1..NumColumns(df) : df.columns[j].t = "str"}

\* Uploads that pass validation, with everything a parser may make of them;
\* an upload of an unsupported type; an upload over the size limit
Files ==
    {File("Book.XLSX", 1024, parsed) : parsed \in ParserOutcomes}
    \cup {File("data.csv", 2048, parsed) : parsed \in TextFrames}
    \cup {File("notes.txt", 1024, parsed) : parsed \in TextFrames}
    \cup {File("data.csv", MAX_FILE_SIZE_BYTES + 1, parsed) : parsed \in TextFrames}

(***************************************************************************)
(* SpecLoader: one DataLoader alone, driven through validate_file,         *)
(* load_file, get_schema and get_dataframe_info                            *)
(***************************************************************************)
\* Names with each supported extension in several cases, with other final
\* segments, with several dots, with none, and with nothing after the dot
FileNames ==
    { "data.csv", "DATA.CSV", "Data.Csv", "Book.XLSX", "book.xlsx", "old.xls",
      "OLD.XLS", ".csv", "archive.tar.csv", "data.csv.txt", "csv.txt", "data.txt",
      "data.csvx", "data.xlsm", "data", "csv", "data." }

\* Sizes around the ceiling
FileSizes ==
    { 0, 1024, MAX_FILE_SIZE_BYTES - 1, MAX_FILE_SIZE_BYTES,
      MAX_FILE_SIZE_BYTES + 1, 11 * 1024 * 1024 }

\* The parser's exceptions
ParserErrors == {outcome \in ParserOutcomes : outcome.t # "DataFrame"}

\* Files handed to load_file directly: no validation has screened them
LoaderFiles ==
    {File(name, 1024, parsed) :
        name \in {"Book.XLSX", "old.xls", "notes.txt", "data"},
        parsed \in ParserOutcomes}
    \cup {File("data.csv", 2048, parsed) : parsed \in TextFrames \cup ParserErrors}

ValidateFile ==
    \E file_name \in FileNames, file_size \in FileSizes :
        /\ op' = "validate_file"
        /\ calls' = <<[fn |-> "validate_file", file_name |-> file_name,
                       file_size |-> file_size]>>
        /\ ret' = Returns(validate_file(file_name, file_size))
        /\ UNCHANGED <<memvars, hist, current_df, last_plan, dl_current_df,
                       dl_file_name, smart_df>>

LoadFile ==
    \E file \in LoaderFiles :
        \E after \in {load_file(dl_current_df, dl_file_name, file)} :
           /\ op' = "load_file"
           /\ calls' = <<[fn |-> "load_file", file |-> file]>>
           /\ ret' = Returns(after.result)
           /\ dl_current_df' = after.current_df
           /\ dl_file_name' = after.file_name
           /\ UNCHANGED <<memvars, hist, current_df, last_plan, smart_df>>

\* get_schema() and get_schema(df)
GetSchema ==
    \E df \in {None} \cup {d \in DataFrames : NumRows(d) > 0} :
        /\ op' = "get_schema"
        /\ calls' = <<[fn |-> "get_schema", df |-> df]>>
        /\ ret' = Returns(get_schema(dl_current_df, df))
        /\ UNCHANGED <<memvars, hist, current_df, last_plan, dl_current_df,
                       dl_file_name, smart_df>>

\* get_dataframe_info() and get_dataframe_info(df)
GetDataframeInfo ==
    \E df \in {None} \cup {d \in DataFrames : NumRows(d) > 0} :
        /\ op' = "get_dataframe_info"
        /\ calls' = <<[fn |-> "get_dataframe_info", df |-> df]>>
        /\ ret' = get_dataframe_info(dl_current_df, df)
        /\ UNCHANGED <<memvars, hist, current_df, last_plan, dl_current_df,
                       dl_file_name, smart_df>>

(***************************************************************************)
(* agents/planner.py                                                       *)
(*                                                                         *)
(* The generation call is an input: it raises, or it returns a message     *)
(* whose content is None or a text. A text is carried with what json.loads *)
(* makes of it: the decoded value, or no value when it is not JSON.        *)
(***************************************************************************)
ExecutionPlan(goal, steps, needs_visualization, chart_type, columns_to_use, aggregation, filters, raw_response) ==
    [goal |-> goal, steps |-> steps, needs_visualization |-> needs_visualization,
     chart_type |-> chart_type, columns_to_use |-> columns_to_use,
     aggregation |-> aggregation, filters |-> filters, raw_response |-> raw_response]

Text(raw, decoded) == [t |-> "str", v |-> raw, json |-> decoded]
NotJson == [t |-> "notjson"]

\* json.loads(raw_text)
json_loads(raw_text) ==
    IF raw_text.t # "str"
    THEN Raises("TypeError",
                "the JSON object must be str, bytes or bytearray, not NoneType")
    ELSE IF raw_text.json = NotJson
    THEN Raises("JSONDecodeError", "Expecting value: line 1 column 1 (char 0)")
    ELSE Returns(raw_text.json)

\* The keys of a decoded JSON object, in order
Keys(obj) == [i \in 1..Len(obj.v) |-> obj.v[i][1]]
HasKey(obj, key) == \E i \in 1..Len(obj.v) : obj.v[i][1] = key

\* dict.get(key, default)
Get(obj, key, default) ==
    IF HasKey(obj, key)
    THEN obj.v[CHOOSE i \in 1..Len(obj.v) : obj.v[i][1] = key][2]
    ELSE default

\* PlannerAgent.EXECUTION_PLAN_SCHEMA: whether a decoded value conforms to it
REQUIRED == {"goal", "steps", "needs_visualization", "chart_type",
             "columns_to_use", "aggregation", "filters"}
AGGREGATION_ENUM == {Str("sum"), Str("mean"), Str("count"), Str("max"), Str("min"), None}

IsArrayOfStrings(x) == x.t = "arr" /\ \A i \in 1..Len(x.v) : x.v[i].t = "str"

PropertyConforms(key, x) ==
    CASE key = "goal" -> x.t = "str"
      [] key = "steps" -> IsArrayOfStrings(x)
      [] key = "needs_visualization" -> x.t = "bool"
      [] key = "chart_type" -> x.t \in {"str", "none"}
      [] key = "columns_to_use" -> IsArrayOfStrings(x)
      [] key = "aggregation" -> x.t \in {"str", "none"} /\ x \in AGGREGATION_ENUM
      [] key = "filters" -> x.t \in {"obj", "none"}

ConformsToSchema(x) ==
    /\ x.t = "obj"
    /\ \A key \in REQUIRED : HasKey(x, key)
    /\ \A i \in 1..Len(x.v) :
          /\ x.v[i][1] \in REQUIRED                 \* additionalProperties: False
          /\ PropertyConforms(x.v[i][1], x.v[i][2])

\* A fallback plan whose goal is the bare question
FallbackPlan_bare_goal(question, text) ==
    ExecutionPlan(Str(question),
                  Arr(<<Str("Analyze the data to answer the question")>>),
                  Bool(FALSE), None, Arr(<<>>), None, None, Str(text))

\* A fallback plan without steps
FallbackPlan_no_steps(question, text) ==
    ExecutionPlan(Str("Answer: " \o question), None,
                  Bool(FALSE), None, Arr(<<>>), None, None, Str(text))

\* The plan of the except branch of create_plan
FallbackPlan(question, text) ==
    ExecutionPlan(Str("Answer: " \o question),
                  Arr(<<Str("Analyze the data to answer the question")>>),
                  Bool(FALSE), None, Arr(<<>>), None, None, Str(text))

\* The plan of the try branch of create_plan, from the decoded object
ParsedPlan(plan_data, raw_text) ==
    ExecutionPlan(Get(plan_data, "goal", Str("Analyze the data")),
                  Get(plan_data, "steps", Arr(<<Str("Analyze the data")>>)),
                  Get(plan_data, "needs_visualization", Bool(FALSE)),
                  Get(plan_data, "chart_type", None),
                  Get(plan_data, "columns_to_use", Arr(<<>>)),
                  Get(plan_data, "aggregation", None),
                  Get(plan_data, "filters", None),
                  Str(raw_text.v))

\* PlannerAgent.create_plan, given what the generation call does
create_plan(question, schema, conversation_context, generation) ==
    IF generation.raised
    THEN Returns(FallbackPlan(question, generation.text))
    ELSE LET raw_text == generation.value
             loaded == json_loads(raw_text)
         IN IF loaded.raised
            THEN Returns(FallbackPlan(question, loaded.text))
            ELSE IF loaded.value.t # "obj"
            THEN Returns(FallbackPlan(question,
                            "'" \o TypeName(loaded.value)
                            \o "' object has no attribute 'get'"))
            ELSE Returns(ParsedPlan(loaded.value, raw_text))

\* iter(x): the items a for loop or str.join walks through
Iterate(x) ==
    CASE x.t = "arr" -> Returns(x.v)
      [] x.t = "str" -> Returns([i \in 1..Len(x.v) |-> Str(SubSeq(x.v, i, i))])
      [] x.t = "obj" -> Returns([i \in 1..Len(x.v) |-> Str(x.v[i][1])])
      [] x.t \in {"none", "num", "bool"} ->
            Raises("TypeError", "'" \o TypeName(x) \o "' object is not iterable")

\* ', '.join(x)
JoinComma(x) ==
    LET items == Iterate(x)
    IN IF items.raised
       THEN Raises("TypeError", "can only join an iterable")
       ELSE LET bad == {i \in 1..Len(items.value) : items.value[i].t # "str"}
            IN IF bad # {}
               THEN Raises("TypeError",
                           "sequence item "
                           \o ToString((CHOOSE i \in bad : \A k \in bad : i <= k) - 1)
                           \o ": expected str instance, "
                           \o TypeName(items.value[CHOOSE i \in bad : \A k \in bad : i <= k])
                           \o " found")
               ELSE Returns(Join(", ", [i \in 1..Len(items.value) |->
                                          items.value[i].v]))

\* PlannerAgent.format_plan_display
format_plan_display(plan) ==
    LET head == <<"**Goal:** " \o PyStr(plan.goal), "", "**Execution Steps:**">>
        steps == Iterate(plan.steps)
    IN IF steps.raised THEN steps
       ELSE LET numbered == [i \in 1..Len(steps.value) |->
                               "   " \o ToString(i) \o ". " \o PyStr(steps.value[i])]
                visual == IF Truthy(plan.needs_visualization)
                          THEN <<"", "**Visualization:** "
                                     \o (IF Truthy(plan.chart_type)
                                         THEN PyStr(plan.chart_type) ELSE "auto")
                                     \o " chart">>
                          ELSE <<>>
                joined == IF Truthy(plan.columns_to_use)
                          THEN JoinComma(plan.columns_to_use)
                          ELSE Returns("")
            IN IF joined.raised THEN joined
               ELSE LET columns == IF Truthy(plan.columns_to_use)
                                   THEN <<"", "**Columns:** " \o joined.value>>
                                   ELSE <<>>
                    IN Returns(Join("\n", head \o numbered \o visual \o columns))

(***************************************************************************)
(* The generation outcomes tried                                           *)
(***************************************************************************)
\* json.dumps(x): the text of a decoded value
RECURSIVE Dumps(_)
Dumps(x) ==
    CASE x.t = "str" -> "\"" \o x.v \o "\""
      [] x.t = "num" -> ToString(x.v)
      [] x.t = "bool" -> IF x.v THEN "true" ELSE "false"
      [] x.t = "none" -> "null"
      [] x.t = "arr" -> "[" \o Join(", ", [i \in 1..Len(x.v) |-> Dumps(x.v[i])]) \o "]"
      [] x.t = "obj" -> "{" \o Join(", ", [i \in 1..Len(x.v) |->
                                  "\"" \o x.v[i][1] \o "\": " \o Dumps(x.v[i][2])])
                         \o "}"

\* A reply that is the JSON text of x
Json(x) == Text(Dumps(x), x)

\* A plan that conforms to EXECUTION_PLAN_SCHEMA
ValidPairs ==
    << <<"goal", Str("Total amount by region")>>,
       <<"steps", Arr(<<Str("Group by region"), Str("Sum amount")>>)>>,
       <<"needs_visualization", Bool(TRUE)>>,
       <<"chart_type", Str("bar")>>,
       <<"columns_to_use", Arr(<<Str("region"), Str("amount")>>)>>,
       <<"aggregation", Str("sum")>>,
       <<"filters", None>> >>

\* pairs with the value of one key replaced, and with one key removed
With(pairs, key, value) ==
    [i \in 1..Len(pairs) |-> IF pairs[i][1] = key THEN <<key, value>> ELSE pairs[i]]
RECURSIVE Without(_, _)
Without(pairs, key) ==
    IF pairs = <<>> THEN <<>>
    ELSE IF Head(pairs)[1] = key THEN Without(Tail(pairs), key)
    ELSE <<Head(pairs)>> \o Without(Tail(pairs), key)

\* Values a field may be given, of every JSON type
FieldValues ==
    { None, Bool(TRUE), Bool(FALSE), Num(0), Num(5), Str(""), Str("median"),
      Arr(<<>>), Arr(<<Num(1)>>), Arr(<<Str("amount")>>), Obj(<<>>) }

ValidReply == Json(Obj(ValidPairs))
WrongTypeReply == Json(Obj(With(ValidPairs, "steps", None)))

\* The valid plan; with any one field given any value; with any one field
\* missing; with a field the schema does not have; and no fields at all
ObjectReplies ==
    {ValidReply}
    \cup {Json(Obj(With(ValidPairs, key, value))) : key \in REQUIRED, value \in FieldValues}
    \cup {Json(Obj(Without(ValidPairs, key))) : key \in REQUIRED}
    \cup {Json(Obj(ValidPairs \o << <<"confidence", Num(1)>> >>)), Json(Obj(<<>>))}

NotJsonReply == Text("I cannot help with that.", NotJson)

\* What the generation call may do: raise, return no content, return text
\* that is not JSON, return JSON that is no object, return a JSON object
Generations ==
    { Raises("APIConnectionError", "Connection error."),
      Raises("RateLimitError", "Error code: 429"),
      Returns(None),
      Returns(NotJsonReply),
      Returns(Json(Arr(<<>>))), Returns(Json(Str("plan"))), Returns(Json(Num(5))) }
    \cup {Returns(reply) : reply \in ObjectReplies}

\* The generation outcomes the Orchestrator is driven with: the call fails,
\* the text is not JSON, a conforming plan, and a plan whose steps are null
OrchestratorGenerations ==
    { Raises("APIConnectionError", "Connection error."),
      Returns(NotJsonReply),
      Returns(ValidReply),
      Returns(WrongTypeReply) }

PlannerQuestions == {"What is the total amount?", "Plot it by region"}

(***************************************************************************)
(* SpecPlan: PlannerAgent.create_plan alone, on every generation outcome   *)
(***************************************************************************)
CreatePlan ==
    \E question \in PlannerQuestions, generation \in Generations :
        /\ op' = "create_plan"
        /\ calls' = <<[fn |-> "generate", question |-> question,
                       generation |-> generation]>>
        /\ ret' = create_plan(question, "COLUMNS AND DATA TYPES:",
                              "User: " \o question, generation)
        /\ UNCHANGED <<memvars, hist, current_df, last_plan, dl_current_df,
                       dl_file_name, smart_df>>

(***************************************************************************)
(* agents/executor.py is not among the sources. ExecutorAgent is modelled  *)
(* from its contract: set_dataframe keeps the table it is given, execute   *)
(* returns (answer, result_df, image_path) or raises.                      *)
(***************************************************************************)
set_dataframe(df) == df

Executions ==
    { Returns(<<"The total is 42",
                DataFrame(<<Str("total")>>, <<"int64">>, << <<Num(42)>> >>),
                Str("exports/charts/chart.png")>>),
      Raises("Exception", "No code found in the response") }

(***************************************************************************)
(* agents/orchestrator.py                                                  *)
(***************************************************************************)
ORCHESTRATOR_MAX_MESSAGES == 5

Questions == {"What is the total amount?"}

\* An exception no handler of process_query expects, raised by the call named:
\* the interpreter running out of memory while it allocates. add_message
\* allocates twice, the Message before the append and the truncated list
\* after it, so it may raise at either place.
Faults ==
    {"none", "add_user_message", "add_user_message_truncation", "get_schema",
     "add_assistant_message", "add_assistant_message_truncation"}
OutOfMemory == Raises("MemoryError", "")

\* What the collaborators do during one process_query: every generation
\* outcome with every execution outcome, and each fault on an otherwise
\* successful turn
Turns ==
    [generation : OrchestratorGenerations, execution : Executions, fault : {"none"}]
    \cup [generation : {Returns(ValidReply)},
          execution : {e \in Executions : ~e.raised},
          fault : Faults \ {"none"}]

\* AgentOrchestrator.__init__
Init ==
    /\ max_messages = ORCHESTRATOR_MAX_MESSAGES
    /\ messages = <<>>
    /\ data_schema = None
    /\ current_dataframe_info = None
    /\ hist = <<>>
    /\ current_df = None
    /\ last_plan = Unset
    /\ dl_current_df = None
    /\ dl_file_name = None
    /\ smart_df = None
    /\ op = "init"
    /\ ret = Returns(None)
    /\ calls = <<>>

\* load_data taking every load for a success: a failed load then goes on to
\* replace the table and clear the log
LoadSucceeded_always(success, df) == TRUE

\* "if success and df is not None" of load_data
LoadSucceeded(success, df) == success /\ df # None

\* AgentOrchestrator.load_data: its outcome and every field it may write
load_data(file) ==
    LET valid == validate_file(file.name, file.size)
        same == [ret |-> Returns(None), current_df |-> current_df,
                 messages |-> messages, data_schema |-> data_schema,
                 current_dataframe_info |-> current_dataframe_info,
                 smart_df |-> smart_df, dl_current_df |-> dl_current_df,
                 dl_file_name |-> dl_file_name, calls |-> <<>>]
    IN IF ~valid[1]
       THEN [same EXCEPT !.ret = Returns(<<FALSE, valid[2]>>)]
       ELSE LET loaded == load_file(dl_current_df, dl_file_name, file)
                success == loaded.result[1]
                msg == loaded.result[2]
                df == loaded.result[3]
                parsed == [same EXCEPT !.dl_current_df = loaded.current_df,
                                       !.dl_file_name = loaded.file_name]
            IN IF ~LoadSucceeded(success, df)
               THEN [parsed EXCEPT !.ret = Returns(<<success, msg>>)]
               ELSE LET schema == get_schema(loaded.current_df, df)
                        info == get_dataframe_info(loaded.current_df, df)
                        cleared == [parsed EXCEPT !.current_df = df, !.messages = <<>>]
                    IN IF info.raised
                       THEN [cleared EXCEPT !.ret = info]
                       ELSE [cleared EXCEPT
                                !.current_dataframe_info = Str(info.value),
                                !.data_schema = Str(schema),
                                !.smart_df = set_dataframe(df),
                                !.calls = <<[fn |-> "set_dataframe", df |-> df]>>,
                                !.ret = Returns(<<success, msg>>)]

LoadData ==
    \E file \in Files :
        \E after \in {load_data(file)} :
           /\ op' = "load_data"
           /\ ret' = after.ret
           /\ calls' = after.calls
           /\ current_df' = after.current_df
           /\ messages' = after.messages
           /\ data_schema' = after.data_schema
           /\ current_dataframe_info' = after.current_dataframe_info
           /\ smart_df' = after.smart_df
           /\ dl_current_df' = after.dl_current_df
           /\ dl_file_name' = after.dl_file_name
           /\ UNCHANGED <<max_messages, hist, last_plan>>

\* The Result process_query starts from
EmptyResult ==
    [success |-> FALSE, answer |-> "", plan_display |-> "",
     result_df |-> None, image_path |-> None, error |-> None]

\* process_query without its no-data check
NoDataLoaded_never(df) == FALSE

\* "if self.current_df is None" of process_query
NoDataLoaded(df) == df = None

\* The except branch of process_query
Caught(result, e) ==
    [result EXCEPT !.error = Str("Error processing query: " \o e.text),
                   !.answer = "Error processing query: " \o e.text]

\* The trace entry of a call that raised
Raised(fn, e) == [fn |-> "raised", by |-> fn, exception |-> e]

\* process_query recording an assistant message for a failed execution too
process_query_records_failures(question, generation, execution, fault) ==
    LET out(res, msgs, plan, trace) ==
            [ret |-> Returns(res), messages |-> msgs, last_plan |-> plan, calls |-> trace]
        failed(res, msgs, plan, trace, fn, e) ==
            out(Caught(res, e), msgs, plan, Append(trace, Raised(fn, e)))
    IN IF NoDataLoaded(current_df)
       THEN out([EmptyResult EXCEPT !.error = Str("Please upload a data file first.")],
                messages, last_plan, <<>>)
       ELSE IF fault = "add_user_message"
       THEN failed(EmptyResult, messages, last_plan, <<>>, "add_message", OutOfMemory)
       ELSE IF fault = "add_user_message_truncation" /\ Truncates(messages, max_messages)
       THEN failed(EmptyResult,
                   add_message_interrupted(messages, max_messages, "user", question,
                                           None, None),
                   last_plan, <<>>, "add_message", OutOfMemory)
       ELSE
       LET msgs1 == add_message(messages, max_messages, "user", question, None, None)
           t1 == <<[fn |-> "add_message", role |-> "user", content |-> question]>>
       IN IF fault = "get_schema"
          THEN failed(EmptyResult, msgs1, last_plan, t1, "get_schema", OutOfMemory)
          ELSE
          LET schema == get_schema(dl_current_df, current_df)
              context == get_context(msgs1)
              plan == create_plan(question, schema, context, generation).value
              t2 == Append(t1, [fn |-> "create_plan", question |-> question,
                                data_schema |-> schema,
                                conversation_context |-> context,
                                generation |-> generation])
              shown == format_plan_display(plan)
          IN IF shown.raised
             THEN failed(EmptyResult, msgs1, plan, t2, "format_plan_display", shown)
             ELSE
             LET r1 == [EmptyResult EXCEPT !.plan_display = shown.value]
                 t3 == Append(t2, [fn |-> "execute", plan |-> plan,
                                   df |-> current_df, question |-> question,
                                   execution |-> execution])
             IN IF execution.raised
                THEN failed(r1,
                            add_message(msgs1, max_messages, "assistant",
                                        "Error processing query: " \o execution.text,
                                        None, None),
                            plan,
                            Append(t3, [fn |-> "add_message", role |-> "assistant",
                                        content |-> "Error processing query: "
                                                    \o execution.text]),
                            "execute", execution)
                ELSE
                LET r2 == [r1 EXCEPT !.success = TRUE,
                                     !.answer = execution.value[1],
                                     !.result_df = execution.value[2],
                                     !.image_path = execution.value[3]]
                IN IF fault = "add_assistant_message"
                   THEN failed(r2, msgs1, plan, t3, "add_message", OutOfMemory)
                   ELSE IF /\ fault = "add_assistant_message_truncation"
                           /\ Truncates(msgs1, max_messages)
                   THEN failed(r2,
                               add_message_interrupted(msgs1, max_messages, "assistant",
                                                       execution.value[1], None, None),
                               plan, t3, "add_message", OutOfMemory)
                   ELSE out(r2,
                            add_message(msgs1, max_messages, "assistant",
                                        execution.value[1], None, None),
                            plan,
                            Append(t3, [fn |-> "add_message", role |-> "assistant",
                                        content |-> execution.value[1]]))

\* AgentOrchestrator.process_query: the Result and every field it may write.
\* The trace lists the calls made, in order, and the call that raised.
process_query(question, generation, execution, fault) ==
    LET out(res, msgs, plan, trace) ==
            [ret |-> Returns(res), messages |-> msgs, last_plan |-> plan, calls |-> trace]
        failed(res, msgs, plan, trace, fn, e) ==
            out(Caught(res, e), msgs, plan, Append(trace, Raised(fn, e)))
    IN IF NoDataLoaded(current_df)
       THEN out([EmptyResult EXCEPT !.error = Str("Please upload a data file first.")],
                messages, last_plan, <<>>)
       ELSE IF fault = "add_user_message"
       THEN failed(EmptyResult, messages, last_plan, <<>>, "add_message", OutOfMemory)
       ELSE IF fault = "add_user_message_truncation" /\ Truncates(messages, max_messages)
       THEN failed(EmptyResult,
                   add_message_interrupted(messages, max_messages, "user", question,
                                           None, None),
                   last_plan, <<>>, "add_message", OutOfMemory)
       ELSE
       LET msgs1 == add_message(messages, max_messages, "user", question, None, None)
           t1 == <<[fn |-> "add_message", role |-> "user", content |-> question]>>
       IN IF fault = "get_schema"
          THEN failed(EmptyResult, msgs1, last_plan, t1, "get_schema", OutOfMemory)
          ELSE
          LET schema == get_schema(dl_current_df, current_df)
              context == get_context(msgs1)
              plan == create_plan(question, schema, context, generation).value
              t2 == Append(t1, [fn |-> "create_plan", question |-> question,
                                data_schema |-> schema,
                                conversation_context |-> context,
                                generation |-> generation])
              shown == format_plan_display(plan)
          IN IF shown.raised
             THEN failed(EmptyResult, msgs1, plan, t2, "format_plan_display", shown)
             ELSE
             LET r1 == [EmptyResult EXCEPT !.plan_display = shown.value]
                 t3 == Append(t2, [fn |-> "execute", plan |-> plan,
                                   df |-> current_df, question |-> question,
                                   execution |-> execution])
             IN IF execution.raised
                THEN failed(r1, msgs1, plan, t3, "execute", execution)
                ELSE
                LET r2 == [r1 EXCEPT !.success = TRUE,
                                     !.answer = execution.value[1],
                                     !.result_df = execution.value[2],
                                     !.image_path = execution.value[3]]
                IN IF fault = "add_assistant_message"
                   THEN failed(r2, msgs1, plan, t3, "add_message", OutOfMemory)
                   ELSE IF /\ fault = "add_assistant_message_truncation"
                           /\ Truncates(msgs1, max_messages)
                   THEN failed(r2,
                               add_message_interrupted(msgs1, max_messages, "assistant",
                                                       execution.value[1], None, None),
                               plan, t3, "add_message", OutOfMemory)
                   ELSE out(r2,
                            add_message(msgs1, max_messages, "assistant",
                                        execution.value[1], None, None),
                            plan,
                            Append(t3, [fn |-> "add_message", role |-> "assistant",
                                        content |-> execution.value[1]]))

ProcessQuery ==
    \E question \in Questions, turn \in Turns :
        /\ (turn.fault \in {"add_user_message_truncation",
                            "add_assistant_message_truncation"}) =>
              Len(messages) < max_messages + MaxOverflow
        /\ \E after \in {process_query(question, turn.generation, turn.execution,
                                     turn.fault)} :
           /\ op' = "process_query"
           /\ ret' = after.ret
           /\ calls' = after.calls
           /\ messages' = after.messages
           /\ last_plan' = after.last_plan
           /\ UNCHANGED <<max_messages, data_schema, current_dataframe_info, hist,
                          current_df, dl_current_df, dl_file_name, smart_df>>

\* df.head(n): the first n rows, or all but the last -n when n is negative
DfHead(df, n) ==
    [df EXCEPT !.rows = SubSeq(df.rows, 1,
                               IF n >= 0 THEN Min(n, NumRows(df))
                               ELSE Max(NumRows(df) + n, 0))]

\* AgentOrchestrator.get_data_preview
get_data_preview(df, n_rows) == IF df # None THEN DfHead(df, n_rows) ELSE None

\* AgentOrchestrator.get_data_schema
get_data_schema(df, loader_df) ==
    IF df # None THEN get_schema(loader_df, df) ELSE "No data loaded."

\* AgentOrchestrator.get_data_info
get_data_info(df, loader_df) ==
    IF df # None THEN get_dataframe_info(loader_df, df) ELSE Returns("No data loaded.")

\* AgentOrchestrator.get_conversation_history
get_conversation_history(msgs) == msgs

\* clear_conversation calling memory.clear(): the caches go with the log
clear_conversation_clears_memory(msgs, schema, info) ==
    [messages |-> <<>>, data_schema |-> None, current_dataframe_info |-> None,
     last_plan |-> None]

\* AgentOrchestrator.clear_conversation: the fields it writes, and the
\* Memory fields beside them
clear_conversation(msgs, schema, info) ==
    [messages |-> <<>>, data_schema |-> schema, current_dataframe_info |-> info,
     last_plan |-> None]

ClearConversation ==
    \E after \in {clear_conversation(messages, data_schema, current_dataframe_info)} :
        /\ op' = "clear_conversation"
        /\ ret' = Returns(None)
        /\ calls' = <<>>
        /\ messages' = after.messages
        /\ data_schema' = after.data_schema
        /\ current_dataframe_info' = after.current_dataframe_info
        /\ last_plan' = after.last_plan
        /\ UNCHANGED <<max_messages, hist, current_df, dl_current_df,
                       dl_file_name, smart_df>>

\* ConversationMemory.clear forgetting the caches
clear_messages_only(msgs, schema, info) ==
    [messages |-> <<>>, data_schema |-> schema, current_dataframe_info |-> info]

\* ConversationMemory.clear
clear(msgs, schema, info) ==
    [messages |-> <<>>, data_schema |-> None, current_dataframe_info |-> None]

\* AgentOrchestrator.reset
Reset ==
    \E memory \in {clear(messages, data_schema, current_dataframe_info)} :
        /\ op' = "reset"
        /\ ret' = Returns(None)
        /\ calls' = <<>>
        /\ current_df' = None
        /\ last_plan' = None
        /\ messages' = memory.messages
        /\ data_schema' = memory.data_schema
        /\ current_dataframe_info' = memory.current_dataframe_info
        /\ smart_df' = None
        /\ UNCHANGED <<max_messages, hist, dl_current_df, dl_file_name>>

Next == LoadData \/ ProcessQuery \/ ClearConversation \/ Reset

Spec == Init /\ [][Next]_vars

NextPlan == CreatePlan

SpecPlan == Init /\ [][NextPlan]_vars

NextLoader == ValidateFile \/ LoadFile \/ GetSchema \/ GetDataframeInfo

SpecLoader == Init /\ [][NextLoader]_vars

(***************************************************************************)
(* SpecMem: ConversationMemory(max_messages = K) alone                     *)
(***************************************************************************)
InitMem ==
    /\ max_messages \in 0..MaxCap
    /\ messages = <<>>
    /\ data_schema = None
    /\ current_dataframe_info = None
    /\ hist = <<>>
    /\ current_df = None
    /\ last_plan = Unset
    /\ dl_current_df = None
    /\ dl_file_name = None
    /\ smart_df = None
    /\ op = "init"
    /\ ret = Returns(None)
    /\ calls = <<>>

MemAddMessage ==
    \E role \in Roles, content \in Contents :
        /\ Len(hist) < MaxAdds
        /\ messages' = add_message(messages, max_messages, role, content, None, None)
        /\ hist' = Append(hist, Message(role, content, None, None))
        /\ op' = "add_message"
        /\ ret' = Returns(None)
        /\ UNCHANGED <<max_messages, data_schema, current_dataframe_info,
                       current_df, last_plan, dl_current_df, dl_file_name,
                       smart_df, calls>>

MemGetContext ==
    /\ op' = "get_context"
    /\ ret' = Returns(get_context(messages))
    /\ UNCHANGED <<memvars, hist, current_df, last_plan, dl_current_df,
                   dl_file_name, smart_df, calls>>

NextMem == MemAddMessage \/ MemGetContext

SpecMem == InitMem /\ [][NextMem]_vars

(***************************************************************************)
(* SpecContext: the caches and the full context of one ConversationMemory  *)
(***************************************************************************)
\* Texts a caller may store: the empty text, and a schema / an info text
SchemaTexts == {"", "COLUMNS AND DATA TYPES:\n  - amount (int64): 2/2 non-null | Sample: [10, 20]"}
InfoTexts == {"", "Total Rows: 2\nTotal Columns: 1\nColumn Names: amount"}

InitContext == InitMem /\ max_messages = MaxCap

MemSetDataSchema ==
    \E schema \in SchemaTexts :
        /\ data_schema' = set_data_schema(schema)
        /\ op' = "set_data_schema"
        /\ ret' = Returns(None)
        /\ UNCHANGED <<max_messages, messages, current_dataframe_info, hist,
                       current_df, last_plan, dl_current_df, dl_file_name,
                       smart_df, calls>>

MemSetDataframeInfo ==
    \E info \in InfoTexts :
        /\ current_dataframe_info' = set_dataframe_info(info)
        /\ op' = "set_dataframe_info"
        /\ ret' = Returns(None)
        /\ UNCHANGED <<max_messages, messages, data_schema, hist,
                       current_df, last_plan, dl_current_df, dl_file_name,
                       smart_df, calls>>

MemClear ==
    \E memory \in {clear(messages, data_schema, current_dataframe_info)} :
        /\ messages' = memory.messages
        /\ data_schema' = memory.data_schema
        /\ current_dataframe_info' = memory.current_dataframe_info
        /\ op' = "clear"
        /\ ret' = Returns(None)
        /\ UNCHANGED <<max_messages, hist, current_df, last_plan, dl_current_df,
                       dl_file_name, smart_df, calls>>

MemGetFullContext ==
    /\ op' = "get_full_context"
    /\ ret' = Returns(get_full_context(data_schema, current_dataframe_info, messages))
    /\ UNCHANGED <<memvars, hist, current_df, last_plan, dl_current_df,
                   dl_file_name, smart_df, calls>>

NextContext ==
    \/ MemAddMessage
    \/ MemSetDataSchema
    \/ MemSetDataframeInfo
    \/ MemClear
    \/ MemGetFullContext

SpecContext == InitContext /\ [][NextContext]_vars

\* The last n elements of s, in order
LastN(s, n) == SubSeq(s, Len(s) - n + 1, Len(s))

\* C1: after every add_message, messages has length <= K and equals the
\* min(n, K) most recently added messages in their original order, for every
\* capacity K >= 0.
C1_BoundedMostRecent ==
    /\ Len(messages) <= max_messages
    /\ messages = LastN(hist, Min(Len(hist), max_messages))

\* The same statement for capacities K >= 1 only.
C1_PositiveCapacity ==
    max_messages >= 1 => C1_BoundedMostRecent


\* C2: process_query called while no table is loaded returns success = false
\* with the error "Please upload a data file first.", leaves the message log,
\* the schema cache and the info cache as they were, and calls neither the
\* Planner nor the Executor.
C2_NoDataQueryRejected ==
    [][(op' = "process_query" /\ current_df = None) =>
          /\ ~ret'.raised
          /\ ret'.value.success = FALSE
          /\ ret'.value.error = Str("Please upload a data file first.")
          /\ UNCHANGED memvars
          /\ calls' = <<>>]_vars

\* A query rejected after a table was loaded and the Orchestrator reset
C2_RejectedAfterReset ==
    /\ op = "process_query"
    /\ current_df = None
    /\ dl_current_df # None
    /\ ret.value.success = FALSE
    /\ ret.value.error = Str("Please upload a data file first.")

\* The user turn of question q, and the log after it is recorded
UserTurn(q) ==
    [role |-> "user", content |-> q, execution_plan |-> None, chart_data |-> None]
Recorded(log, cap, turn) ==
    LastN(Append(log, turn), Min(Len(log) + 1, cap))

\* s ends with the text t
EndsWith(s, t) == Len(s) >= Len(t) /\ SubSeq(s, Len(s) - Len(t) + 1, Len(s)) = t

\* C3: when process_query, called while a table is loaded, invokes the
\* Planner, it has appended exactly one user message carrying the question
\* before that call (the Planner's context already ends with it), and when it
\* returns a failure Result that message is still the last one of the log.
C3_QuestionRecordedFirst ==
    [][(/\ op' = "process_query"
        /\ Len(calls') >= 2
        /\ calls'[2].fn = "create_plan") =>
          LET q == calls'[2].question
          IN /\ current_df # None
             /\ calls'[1] = [fn |-> "add_message", role |-> "user", content |-> q]
             /\ Cardinality({i \in 1..Len(calls') :
                               /\ calls'[i].fn = "add_message"
                               /\ calls'[i].role = "user"}) = 1
             /\ EndsWith(calls'[2].conversation_context, "User: " \o q)
             /\ (ret'.value.success = FALSE =>
                    messages' = Recorded(messages, max_messages, UserTurn(q)))]_vars

\* A query that failed because execution raised, with a full log that still
\* ends with the question
C3_FailedQueryKeepsQuestion ==
    /\ op = "process_query"
    /\ Len(calls) = 4
    /\ calls[4].fn = "raised"
    /\ calls[4].by = "execute"
    /\ ret.value.success = FALSE
    /\ Len(messages) = max_messages
    /\ messages[Len(messages)] = UserTurn(calls[2].question)

\* C4: a load_data call that fails validation or parsing changes no state:
\* the active table, the message log, the schema and info caches, the table
\* held by the Executor and the DataLoader's current_df and file_name are
\* the same after the call as before it.
C4_FailedLoadChangesNothing ==
    [][(op' = "load_data" /\ ~ret'.raised /\ ret'.value[1] = FALSE) =>
          UNCHANGED <<current_df, memvars, smart_df, dl_current_df,
                      dl_file_name>>]_vars

\* A load that failed while a table was active and a conversation under way
C4_FailedLoadWithTable ==
    /\ op = "load_data"
    /\ ~ret.raised
    /\ ret.value[1] = FALSE
    /\ current_df # None
    /\ messages # <<>>

\* C5: loading a file is atomic: after any load_data call ends, by returning
\* or by raising, either nothing changed, or the active table is the new
\* table, the message log is empty, the schema and info caches are those of
\* the new table and the Executor holds the new table.
C5_LoadIsAtomic ==
    [][op' = "load_data" =>
          \/ UNCHANGED <<current_df, memvars, smart_df>>
          \/ /\ current_df' # None
             /\ messages' = <<>>
             /\ data_schema' = Str(get_schema(None, current_df'))
             /\ ~get_dataframe_info(None, current_df').raised
             /\ current_dataframe_info'
                   = Str(get_dataframe_info(None, current_df').value)
             /\ smart_df' = current_df']_vars

\* Whether the generation outcome g is a failure of the call or of the
\* parsing of its text, and str() of the exception that failure raises
Unparseable(g) == g.raised \/ g.value.t # "str" \/ g.value.json = NotJson
FailureText(g) ==
    IF g.raised THEN g.text
    ELSE IF g.value.t # "str"
    THEN "the JSON object must be str, bytes or bytearray, not NoneType"
    ELSE "Expecting value: line 1 column 1 (char 0)"

\* Whether plan is the fallback plan for question q, whatever its raw_response
IsFallback(plan, q) ==
    /\ plan.goal = Str("Answer: " \o q)
    /\ plan.steps.t = "arr"
    /\ Len(plan.steps.v) = 1
    /\ plan.needs_visualization = Bool(FALSE)
    /\ plan.chart_type = None
    /\ plan.columns_to_use = Arr(<<>>)
    /\ plan.aggregation = None
    /\ plan.filters = None

\* C6: create_plan never raises, and whenever the generation call raises or
\* its response is not parseable JSON it returns the fallback plan: goal
\* "Answer: " + question, exactly one step, needs_visualization false,
\* chart_type, aggregation and filters null, columns_to_use empty, and
\* raw_response the str() of the failure.
C6_PlannerNeverRaises ==
    op = "create_plan" =>
       /\ ~ret.raised
       /\ Unparseable(calls[1].generation) =>
             /\ IsFallback(ret.value, calls[1].question)
             /\ ret.value.raw_response = Str(FailureText(calls[1].generation))

\* create_plan has returned the fallback plan for a reply that is not JSON
C6_FallbackForProse ==
    /\ op = "create_plan"
    /\ calls[1].generation = Returns(NotJsonReply)
    /\ IsFallback(ret.value, calls[1].question)
    /\ ret.value.raw_response = Str("Expecting value: line 1 column 1 (char 0)")

\* C7: when the generation call returns JSON that violates
\* EXECUTION_PLAN_SCHEMA (a required field missing, a field of the wrong
\* type, an aggregation outside the enum, an extra field), create_plan
\* returns the fallback plan, not a plan built from the response.
C7_SchemaViolationFallsBack ==
    (/\ op = "create_plan"
     /\ ~Unparseable(calls[1].generation)
     /\ ~ConformsToSchema(calls[1].generation.value.json)) =>
        /\ ~ret.raised
        /\ IsFallback(ret.value, calls[1].question)
        /\ ret.value.raw_response # Str(calls[1].generation.value.v)

\* C8: every plan create_plan returns has a present, non-empty goal and a
\* non-empty sequence of steps.
C8_PlanHasGoalAndSteps ==
    op = "create_plan" =>
       /\ ~ret.raised
       /\ ret.value.goal.t = "str"
       /\ ret.value.goal.v # ""
       /\ ret.value.steps.t = "arr"
       /\ ret.value.steps.v # <<>>

\* A query on a loaded table whose generation call failed and whose other
\* steps, the Executor included, did not raise
PlanningAloneFailed ==
    /\ op = "process_query"
    /\ Len(calls) >= 2
    /\ calls[2].fn = "create_plan"
    /\ Unparseable(calls[2].generation)
    /\ \A i \in 1..Len(calls) :
          /\ calls[i].fn = "execute" => ~calls[i].execution.raised
          /\ calls[i].fn = "raised" => calls[i].by \notin {"add_message", "get_schema"}

\* C9: when a table is loaded, the generation call fails and the Executor
\* succeeds, process_query calls the Executor with the fallback plan and
\* returns success = true with no error, the Executor's answer and a
\* plan_display that renders the fallback plan; the reason of the failure
\* is in the plan's raw_response only.
C9_PlanningFailureDoesNotFailQuery ==
    PlanningAloneFailed =>
       LET q == calls[2].question
           reason == FailureText(calls[2].generation)
       IN /\ Len(calls) >= 3
          /\ calls[3].fn = "execute"
          /\ IsFallback(calls[3].plan, q)
          /\ calls[3].plan.raw_response = Str(reason)
          /\ last_plan = calls[3].plan
          /\ ~ret.raised
          /\ ret.value.success = TRUE
          /\ ret.value.error = None
          /\ ret.value.answer = calls[3].execution.value[1]
          /\ ret.value.plan_display =
                "**Goal:** Answer: " \o q \o "\n\n**Execution Steps:**\n   1. "
                \o calls[3].plan.steps.v[1].v

\* A query answered although its generation call raised
C9_AnsweredWithFallback ==
    /\ op = "process_query"
    /\ Len(calls) = 4
    /\ calls[2].generation.raised
    /\ calls[3].fn = "execute"
    /\ ret.value.success = TRUE
    /\ last_plan.raw_response = Str("Connection error.")

\* C10: if any step of process_query after the no-data check raises, from
\* recording the user turn to recording the assistant turn, process_query
\* returns a Result with success = false, error and answer the same message
\* "Error processing query: ...", and result_df and image_path unpopulated.
C10_AnyRaiseIsUniformFailure ==
    (/\ op = "process_query"
     /\ calls # <<>>
     /\ calls[Len(calls)].fn = "raised") =>
        /\ ~ret.raised
        /\ ret.value.success = FALSE
        /\ ret.value.error = Str(ret.value.answer)
        /\ ret.value.answer = "Error processing query: "
                              \o calls[Len(calls)].exception.text
        /\ ret.value.result_df = None
        /\ ret.value.image_path = None

\* C11: every Result process_query returns has one of two shapes: success
\* true with no error, or success false with a non-empty error and a
\* non-empty answer.
C11_ResultShapes ==
    op = "process_query" =>
       /\ ~ret.raised
       /\ \/ /\ ret.value.success = TRUE
             /\ ret.value.error = None
          \/ /\ ret.value.success = FALSE
             /\ ret.value.error.t = "str"
             /\ ret.value.error.v # ""
             /\ ret.value.answer # ""

\* The turn that records the answer a
AssistantTurn(a) ==
    [role |-> "assistant", content |-> a, execution_plan |-> None, chart_data |-> None]

\* What C12 says of a Result with success = true and of the log on return
SuccessRecorded ==
    LET n == Len(messages)
        executed == calls[3]
    IN /\ n >= 2
       /\ messages[n - 1] = UserTurn(executed.question)
       /\ messages[n] = AssistantTurn(executed.execution.value[1])
       /\ ~format_plan_display(executed.plan).raised
       /\ ret.value.plan_display = format_plan_display(executed.plan).value
       /\ ret.value.result_df = executed.execution.value[2]
       /\ ret.value.image_path = executed.execution.value[3]

\* C12: when process_query returns success = true, the last two entries of
\* the log are (user, question) then (assistant, the Executor's answer), and
\* the Result carries the plan display and the Executor's table and image
\* path.
C12_SuccessIsRecorded ==
    (op = "process_query" /\ ~ret.raised /\ ret.value.success = TRUE) =>
        SuccessRecorded

\* The same statement for the queries in which no step raised.
C12_WhenNoStepRaised ==
    (/\ op = "process_query"
     /\ ~ret.raised
     /\ ret.value.success = TRUE
     /\ calls[Len(calls)].fn # "raised") =>
        SuccessRecorded

\* C13: clear_conversation empties the message log and leaves the active
\* table, the schema cache, the info cache and the Executor's table as they
\* were, so that a process_query right after it on a loaded table is not
\* turned away and any execution it reaches is given that table.
C13_ClearKeepsTable ==
    [][/\ op' = "clear_conversation" =>
             /\ messages' = <<>>
             /\ UNCHANGED <<current_df, data_schema, current_dataframe_info,
                            smart_df, dl_current_df, dl_file_name, max_messages>>
       /\ (op = "clear_conversation" /\ current_df # None /\ op' = "process_query") =>
             /\ calls' # <<>>
             /\ ret'.value.error # Str("Please upload a data file first.")
             /\ \A i \in 1..Len(calls') :
                   calls'[i].fn = "execute" => calls'[i].df = current_df]_vars

\* A conversation on a loaded table has just been cleared
C13_ClearedWithTable ==
    /\ op = "clear_conversation"
    /\ messages = <<>>
    /\ current_df # None
    /\ data_schema # None
    /\ current_dataframe_info # None
    /\ smart_df = current_df
    /\ last_plan = None

\* C14: after reset, from any state, the Orchestrator is in NoData:
\* get_data_preview returns None, get_conversation_history is empty, the
\* schema and info caches are unset, the Executor holds no table, and a
\* process_query right after it returns the upload-first failure without
\* calling anything.
C14_ResetReturnsToNoData ==
    [][/\ op' = "reset" =>
             /\ get_data_preview(current_df', 5) = None
             /\ get_conversation_history(messages') = <<>>
             /\ data_schema' = None
             /\ current_dataframe_info' = None
             /\ smart_df' = None
       /\ (op = "reset" /\ op' = "process_query") =>
             /\ ~ret'.raised
             /\ ret'.value.success = FALSE
             /\ ret'.value.error = Str("Please upload a data file first.")
             /\ calls' = <<>>
             /\ UNCHANGED memvars]_vars

\* A query turned away right after the reset of an Orchestrator that had a
\* table (the DataLoader still holds it)
C14_TurnedAwayAfterReset ==
    /\ op = "process_query"
    /\ calls = <<>>
    /\ current_df = None
    /\ smart_df = None
    /\ data_schema = None
    /\ dl_current_df # None
    /\ last_plan = None

\* The two states of the Orchestrator
NoData == current_df = None
DataLoaded == current_df # None

\* A step that is a load_data call returning (true, message)
SuccessfulLoad == op' = "load_data" /\ ~ret'.raised /\ ret'.value[1] = TRUE

\* The transitions C15 allows
TwoStateStep ==
    /\ (NoData /\ DataLoaded') => SuccessfulLoad
    /\ (DataLoaded /\ NoData') => op' = "reset"
    /\ SuccessfulLoad => DataLoaded'
    /\ op' = "reset" => NoData'
    /\ (op' \in {"process_query", "clear_conversation"}) => (NoData' <=> NoData)

\* C15: the Orchestrator starts in NoData; only a successful load_data moves
\* it from NoData to DataLoaded; only reset moves it from DataLoaded to
\* NoData; process_query, clear_conversation and a load_data that did not
\* succeed leave the state as it is.
C15_TwoStateMachine ==
    NoData /\ [][TwoStateStep]_vars

\* The same statement with the load_data calls that raise set aside.
C15_WhenNoLoadRaises ==
    NoData /\ [][(op' = "load_data" /\ ret'.raised) \/ TwoStateStep]_vars

\* Whether the final dot-segment of name is, in any case of letters, csv,
\* xlsx or xls: the name ends with a dot and one of them
SupportedName(name) ==
    \E ext \in {"csv", "xlsx", "xls"} : EndsWith(Lower(name), "." \o ext)

\* C16: validate_file(name, size) returns ok exactly when size is at most
\* 10 * 1024 * 1024 bytes and the final dot-segment of name, compared
\* case-insensitively, is csv, xlsx or xls.
C16_ValidateFile ==
    op = "validate_file" =>
       /\ ~ret.raised
       /\ ret.value[1] = (/\ calls[1].file_size <= 10 * 1024 * 1024
                          /\ SupportedName(calls[1].file_name))

\* A file of exactly the limit with an upper-case extension was accepted,
\* after "data.csv.txt" would have been turned away
C16_AcceptedAtTheLimit ==
    /\ op = "validate_file"
    /\ calls[1].file_name = "Book.XLSX"
    /\ calls[1].file_size = 10485760
    /\ ret.value = <<TRUE, "">>
    /\ ~SupportedName("data.csv.txt")
    /\ ~SupportedName("csv")

\* Whether load_file must turn the file away: its extension is unsupported,
\* the parser raised, or the parsed table has no rows
Unloadable(file) ==
    \/ ~SupportedName(file.name)
    \/ file.parsed.t # "DataFrame"
    \/ Len(file.parsed.rows) = 0

\* C17: load_file never raises; for a table with zero rows, content the
\* parser rejects or an unsupported extension it returns (false, a message,
\* None) and leaves the DataLoader's table and file name as they were.
C17_LoadFileNeverRaises ==
    [][op' = "load_file" =>
          /\ ~ret'.raised
          /\ Unloadable(calls'[1].file) =>
                /\ ret'.value[1] = FALSE
                /\ ret'.value[2] # ""
                /\ ret'.value[3] = None
                /\ UNCHANGED <<dl_current_df, dl_file_name>>]_vars

\* A file with no rows was turned away while an earlier table stays loaded
C17_EmptyFileAfterLoad ==
    /\ op = "load_file"
    /\ calls[1].file.parsed.t = "DataFrame"
    /\ Len(calls[1].file.parsed.rows) = 0
    /\ SupportedName(calls[1].file.name)
    /\ ret.value = <<FALSE, "The uploaded file is empty.", None>>
    /\ dl_current_df # None
    /\ dl_file_name # None

\* C18: in every state of the DataLoader, also after a successful load,
\* get_schema called with no table returns "No data loaded.".
C18_NoTableNoSchema ==
    (op = "get_schema" /\ calls[1].df = None) =>
        ret = Returns("No data loaded.")

\* C18 as amended: get_schema called with no table returns "No data loaded."
\* exactly when the DataLoader holds no table; after a successful load it
\* returns the schema of the table loaded last.
C18_NoTableFallsBack ==
    (op = "get_schema" /\ calls[1].df = None) =>
        /\ ~ret.raised
        /\ (ret.value = "No data loaded.") <=> (dl_current_df = None)
        /\ dl_current_df # None => ret.value = SchemaText(dl_current_df)

\* get_schema() has returned the schema of the table loaded before
C18_SchemaOfLoadedTable ==
    /\ op = "get_schema"
    /\ calls[1].df = None
    /\ dl_current_df # None
    /\ dl_file_name = Str("data.csv")
    /\ ret.value = "COLUMNS AND DATA TYPES:\n"
                   \o "  - region (object): 1/2 non-null | Sample: [r1]\n"
                   \o "  - amount (int64): 2/2 non-null | Sample: [10, 20]"

\* The report C19 expects for a table of r rows and named columns: the two
\* counts and the names, verbatim and in the table's order
InfoReport(df) ==
    "Total Rows: " \o ToString(Len(df.rows)) \o "\n"
    \o "Total Columns: " \o ToString(Len(df.columns)) \o "\n"
    \o "Column Names: " \o Join(", ", [j \in 1..Len(df.columns) |-> df.columns[j].v])

\* C19: after load_data succeeds on a table of r rows and c named columns,
\* get_data_info reports "Total Rows: r", "Total Columns: c" and the column
\* names in order, and every process_query and clear_conversation leaves
\* what it reports as it was.
C19_InfoRoundTrip ==
    [][/\ SuccessfulLoad =>
             /\ calls'[1].fn = "set_dataframe"
             /\ get_data_info(current_df', dl_current_df')
                   = Returns(InfoReport(calls'[1].df))
       /\ (op' \in {"process_query", "clear_conversation"}) =>
             get_data_info(current_df', dl_current_df')
                = get_data_info(current_df, dl_current_df)]_vars

\* After a load, queries and a clear_conversation, get_data_info reports
\* the loaded table
C19_ReportAfterConversation ==
    /\ op = "clear_conversation"
    /\ last_plan = None
    /\ dl_file_name = Str("data.csv")
    /\ get_data_info(current_df, dl_current_df)
          = Returns("Total Rows: " \o ToString(MaxRows)
                    \o "\nTotal Columns: 2\nColumn Names: region, amount")

\* The lines of a text: its parts between line breaks
RECURSIVE SplitLines(_)
SplitLines(s) ==
    LET breaks == {i \in 1..Len(s) : SubSeq(s, i, i) = "\n"}
    IN IF breaks = {} THEN <<s>>
       ELSE LET b == CHOOSE i \in breaks : \A k \in breaks : i <= k
            IN <<SubSeq(s, 1, b - 1)>> \o SplitLines(SubSeq(s, b + 1, Len(s)))

StartsWith(s, t) == Len(t) <= Len(s) /\ SubSeq(s, 1, Len(t)) = t

\* The entry C20 expects for one message
Entry(m) ==
    (CASE m.role = "user" -> "User: " [] m.role = "assistant" -> "Assistant: ")
    \o m.content

\* text is the entries of msgs (non-empty) in order, one line break between
\* neighbours
RECURSIVE EntriesInOrder(_, _)
EntriesInOrder(text, msgs) ==
    LET first == Entry(msgs[1])
    IN IF Len(msgs) = 1 THEN text = first
       ELSE /\ StartsWith(text, first \o "\n")
            /\ EntriesInOrder(SubSeq(text, Len(first) + 2, Len(text)), Tail(msgs))

SingleLine(s) == \A i \in 1..Len(s) : SubSeq(s, i, i) # "\n"

\* C20: get_context() returns "No previous conversation." exactly when the
\* message log is empty; otherwise it returns one line per retained message,
\* in chronological order, line i being "User: " or "Assistant: " followed by
\* the content of message i.
C20_OneLinePerMessage ==
    (op = "get_context" /\ ~ret.raised) =>
        /\ (ret.value = "No previous conversation.") <=> (messages = <<>>)
        /\ messages # <<>> =>
              /\ Len(SplitLines(ret.value)) = Len(messages)
              /\ \A i \in 1..Len(messages) :
                    SplitLines(ret.value)[i] = Entry(messages[i])

\* C20 as the code has it: the sentinel exactly for the empty log; otherwise
\* one entry per retained message in chronological order, entries separated
\* by one line break, an entry being the label and the content verbatim; it
\* is one line per message when no content holds a line break.
C20_OneEntryPerMessage ==
    op = "get_context" =>
        /\ ~ret.raised
        /\ (ret.value = "No previous conversation.") <=> (messages = <<>>)
        /\ messages # <<>> =>
              /\ EntriesInOrder(ret.value, messages)
              /\ (\A i \in 1..Len(messages) : SingleLine(messages[i].content)) =>
                    SplitLines(ret.value)
                       = [i \in 1..Len(messages) |-> Entry(messages[i])]

\* get_context() on a log of a user message and an assistant message whose
\* content has two lines
C20_ContextOfTwoMessages ==
    /\ op = "get_context"
    /\ Len(messages) = 2
    /\ messages[1].role = "user"
    /\ messages[2].role = "assistant"
    /\ ret = Returns("User: m1\nAssistant: two\nlines")

\* The log new is the log old with the messages news appended and, possibly,
\* entries evicted from its front: none of news is among the evicted
Grown(old, new, news) ==
    \E evicted \in 0..Len(old) :
        new = SubSeq(old \o news, evicted + 1, Len(old) + Len(news))

\* The calls of a trace that were made, without the note of which one raised
IsCall(c) == c.fn # "raised"
CallsMade(trace) == SelectSeq(trace, IsCall)

\* The order of the calls of one turn
TurnOrder == <<"add_message", "create_plan", "execute", "add_message">>

\* C21: within one process_query on a loaded table the events occur in this
\* order and in no other: user message recorded, Planner called, Executor
\* called with the plan the Planner just returned, the active table and the
\* same question, assistant message recorded, Result returned; the Executor
\* is not called before the Planner returned, and the assistant message is
\* recorded only when the Executor returned.
C21_TurnOrder ==
    [][(op' = "process_query" /\ current_df # None) =>
          LET done == CallsMade(calls')
              n == Len(done)
          IN /\ ~ret'.raised
             /\ n <= 4
             /\ \A i \in 1..n : done[i].fn = TurnOrder[i]
             /\ \A i \in 1..(Len(calls') - 1) : calls'[i].fn # "raised"
             /\ n >= 1 => done[1].role = "user"
             /\ n >= 2 => done[2].question = done[1].content
             /\ n >= 3 =>
                   /\ done[3].plan = create_plan(done[2].question,
                                                 done[2].data_schema,
                                                 done[2].conversation_context,
                                                 done[2].generation).value
                   /\ done[3].df = current_df
                   /\ done[3].question = done[1].content
             /\ n = 4 =>
                   /\ done[4].role = "assistant"
                   /\ ~done[3].execution.raised
                   /\ done[4].content = done[3].execution.value[1]
             /\ ret'.value.success = TRUE =>
                   n >= 3 /\ ~done[3].execution.raised
             /\ \E q \in Questions, a \in {e.value[1] : e \in {x \in Executions : ~x.raised}} :
                   \E news \in {<<>>, <<UserTurn(q)>>, <<UserTurn(q), AssistantTurn(a)>>} :
                      /\ Grown(messages, messages', news)
                      /\ n >= 1 => (news # <<>> /\ q = done[1].content)
                      /\ n = 4 => Len(news) = 2
                      /\ Len(news) = 2 =>
                            /\ n >= 3
                            /\ ~done[3].execution.raised
                            /\ a = done[3].execution.value[1]]_vars

\* A turn that ran through all four calls on a log that already held a turn
C21_FullTurn ==
    /\ op = "process_query"
    /\ Len(calls) = 4
    /\ calls[4].fn = "add_message"
    /\ calls[3].fn = "execute"
    /\ calls[3].df = current_df
    /\ ret.value.success = TRUE
    /\ Len(messages) >= 4

\* C22: in every state reachable through load_data, process_query,
\* clear_conversation and reset, every Message of the log has role exactly
\* "user" or exactly "assistant".
C22_RolesAreUserOrAssistant ==
    \A i \in 1..Len(messages) : messages[i].role \in {"user", "assistant"}

\* A full log, written by process_query, that holds messages of both roles
C22_FullLogOfBothRoles ==
    /\ op = "process_query"
    /\ Len(messages) = ORCHESTRATOR_MAX_MESSAGES
    /\ \E i, j \in 1..Len(messages) :
          messages[i].role = "user" /\ messages[j].role = "assistant"

\* The full context C23 expects: the blocks whose presence is given, in the
\* fixed order, with blank lines between them
ExpectedFullContext(hasSchema, hasInfo, hasConversation) ==
    LET blocks ==
            (IF hasSchema THEN <<"DATA SCHEMA:\n" \o data_schema.v>> ELSE <<>>)
            \o (IF hasInfo
                THEN <<"DATAFRAME INFO:\n" \o current_dataframe_info.v>> ELSE <<>>)
            \o (IF hasConversation
                THEN <<"CONVERSATION HISTORY:\n"
                       \o Join("\n", [i \in 1..Len(messages) |-> Entry(messages[i])])>>
                ELSE <<>>)
    IN IF blocks = <<>> THEN "No context available." ELSE Join("\n\n", blocks)

\* C23: get_full_context() emits the schema block, the dataframe-info block
\* and the conversation block in that order, joined by blank lines, omitting
\* a block exactly when its source is unset (or the log is empty), and
\* returns "No context available." exactly when all three are absent.
C23_BlockOmittedIffUnset ==
    op = "get_full_context" =>
        /\ ~ret.raised
        /\ ret.value = ExpectedFullContext(data_schema # None,
                                           current_dataframe_info # None,
                                           messages # <<>>)
        /\ (ret.value = "No context available.") <=>
              (data_schema = None /\ current_dataframe_info = None /\ messages = <<>>)

\* C23 as the code has it: a block is omitted exactly when its source is
\* unset or the empty text (or the log is empty), and the sentinel is
\* returned exactly when all three blocks are omitted.
C23_BlockOmittedIffUnsetOrEmpty ==
    op = "get_full_context" =>
        LET hasSchema == data_schema # None /\ data_schema.v # ""
            hasInfo == current_dataframe_info # None /\ current_dataframe_info.v # ""
        IN /\ ~ret.raised
           /\ ret.value = ExpectedFullContext(hasSchema, hasInfo, messages # <<>>)
           /\ (ret.value = "No context available.") <=>
                 (~hasSchema /\ ~hasInfo /\ messages = <<>>)

\* get_full_context() with a schema, no info and a log of one message
C23_SchemaAndConversation ==
    /\ op = "get_full_context"
    /\ current_dataframe_info = None
    /\ ret = Returns("DATA SCHEMA:\nCOLUMNS AND DATA TYPES:\n  - amount (int64): 2/2 non-null | Sample: [10, 20]\n\nCONVERSATION HISTORY:\nUser: m1")

\* Every assistant message of the log is the first entry or follows a user
\* message
AssistantFollowsUser(log) ==
    \A i \in 1..Len(log) :
        log[i].role = "assistant" => (i = 1 \/ log[i - 1].role = "user")

\* A process_query step that recorded its question and left it unanswered at
\* the end of the log: the only way a later question comes to stand next to it
LeavesQuestionUnanswered ==
    /\ op' = "process_query"
    /\ calls' # <<>>
    /\ messages' # <<>>
    /\ messages'[Len(messages')].role = "user"

\* C24: in every state reachable through the Orchestrator's operations each
\* assistant message of the log is the first retained entry or immediately
\* preceded by a user message, so two assistant messages are never adjacent;
\* consecutive user messages occur only after failed queries: a query that
\* leaves its question unanswered in the log returned a failure Result.
C24_AssistantFollowsUser ==
    AssistantFollowsUser(messages)
    /\ [][/\ AssistantFollowsUser(messages')
          /\ LeavesQuestionUnanswered => ret'.value.success = FALSE]_vars

\* The same statement with the queries set aside in which recording the
\* assistant message raised.
C24_WhenRecordingDoesNotRaise ==
    AssistantFollowsUser(messages)
    /\ [][/\ AssistantFollowsUser(messages')
          /\ (/\ LeavesQuestionUnanswered
              /\ ~(Len(calls') = 4 /\ calls'[4] = Raised("add_message", OutOfMemory))) =>
                ret'.value.success = FALSE]_vars

\* C25: the conversation context process_query passes to create_plan is
\* never "No previous conversation." and always ends with the line "User: "
\* followed by the current question, also for the first query after a load
\* or after clear_conversation, where it is that line alone.
C25_ContextHoldsTheQuestion ==
    [][(/\ op' = "process_query"
        /\ Len(calls') >= 2
        /\ calls'[2].fn = "create_plan") =>
          LET context == calls'[2].conversation_context
              q == calls'[2].question
          IN /\ context # "No previous conversation."
             /\ SingleLine(q)
             /\ messages = <<>> => context = "User: " \o q
             /\ messages # <<>> =>
                   /\ EndsWith(context, "\nUser: " \o q)
                   /\ \E label \in {"User: ", "Assistant: "} :
                         StartsWith(context, label)]_vars

\* The first query on an empty log (after a load or clear_conversation)
\* reached the Planner with a context of one line
C25_FirstQueryOnEmptyLog ==
    /\ op = "process_query"
    /\ Len(calls) >= 2
    /\ calls[2].fn = "create_plan"
    /\ calls[2].conversation_context = "User: What is the total amount?"
    /\ messages[1] = UserTurn("What is the total amount?")
    /\ last_plan # None
    /\ last_plan # Unset

\* The caches are set exactly when a table is active, and then describe it
CachesDescribeActiveTable ==
    /\ (data_schema # None) <=> (current_df # None)
    /\ (current_dataframe_info # None) <=> (current_df # None)
    /\ current_df # None =>
          /\ data_schema = Str(get_schema(None, current_df))
          /\ ~get_dataframe_info(None, current_df).raised
          /\ current_dataframe_info = Str(get_dataframe_info(None, current_df).value)

\* C26: Memory's cached schema and info are set if and only if the
\* Orchestrator has an active table, and when set they equal get_schema and
\* get_dataframe_info of that table; this holds after every load_data
\* (successful or failed), process_query, clear_conversation and reset.
C26_CachesDescribeActiveTable == CachesDescribeActiveTable

\* The same statement with the load_data calls that raise set aside: every
\* other step leaves the active table and the caches as they were or puts
\* them in line.
C26_WhenNoLoadRaises ==
    CachesDescribeActiveTable
    /\ [][~(op' = "load_data" /\ ret'.raised) =>
             \/ UNCHANGED <<current_df, data_schema, current_dataframe_info>>
             \/ CachesDescribeActiveTable']_vars

\* C27: the three table references stay coherent: in every reachable state,
\* if the Orchestrator's active table is set then the DataLoader's
\* current_df and the table last handed to the Executor are that table, and
\* if it is absent (initially or after reset) then no component still holds
\* a previously loaded table.
C27_TableReferencesCoherent ==
    /\ current_df # None => (dl_current_df = current_df /\ smart_df = current_df)
    /\ current_df = None => (dl_current_df = None /\ smart_df = None)

\* What remains of C27 with the load_data calls that raise set aside: every
\* other step leaves the three references as they were, or leaves an active
\* table held by all three, or leaves no active table and none in the
\* Executor; the DataLoader's table is not part of the last case.
C27_ExceptLoaderAfterReset ==
    C27_TableReferencesCoherent
    /\ [][~(op' = "load_data" /\ ret'.raised) =>
             \/ UNCHANGED <<current_df, dl_current_df, smart_df>>
             \/ /\ current_df' # None
                /\ dl_current_df' = current_df'
                /\ smart_df' = current_df'
             \/ /\ current_df' = None
                /\ smart_df' = None]_vars

\* The second half of C27 for the states right after reset alone: no
\* component holds a table.
C27_NothingHeldAfterReset ==
    op = "reset" => (current_df = None /\ dl_current_df = None /\ smart_df = None)

\* The messages a query may append: its question, and an answer of the
\* Executor
QueryTurns ==
    {UserTurn(q) : q \in Questions}
    \cup {AssistantTurn(e.value[1]) : e \in {x \in Executions : ~x.raised}}

\* C28: process_query, whether it succeeds or fails, changes only the
\* message log (by at most two appended messages, subject to eviction) and
\* the remembered last plan; it never changes the active table, the schema
\* or info cache, the DataLoader's state or the NoData/DataLoaded state.
C28_QueryFrame ==
    [][op' = "process_query" =>
          /\ UNCHANGED <<current_df, data_schema, current_dataframe_info,
                         dl_current_df, dl_file_name, max_messages>>
          /\ NoData' <=> NoData
          /\ \E news \in {<<>>} \cup {<<t1>> : t1 \in QueryTurns}
                            \cup {<<t1, t2>> : t1, t2 \in QueryTurns} :
                Grown(messages, messages', news)
          /\ Len(messages') <= Len(messages) + 2]_vars

\* A successful query on a full log: two messages were appended, the two
\* oldest evicted, and the last plan replaced
C28_TwoAppendedTwoEvicted ==
    /\ op = "process_query"
    /\ ret.value.success = TRUE
    /\ Len(calls) = 4
    /\ calls[4].fn = "add_message"
    /\ Len(messages) = ORCHESTRATOR_MAX_MESSAGES
    /\ messages[1].role = "assistant"
    /\ last_plan = calls[3].plan
    /\ current_df # None
    /\ data_schema # None
=============================================================================
